---- MODULE Spec2Model ----
(***************************************************************************)
(* orbital_elements: the RV Hamiltonian, the COE zonal-gravity rate        *)
(* generator, the MEE-with-epoch-longitude constant-thrust rate generator  *)
(* and the converters between RV / COE and MEE-with-epoch-longitude.       *)
(*                                                                         *)
(* Numbers.  The code computes in floating point; the model computes in    *)
(* exact rationals <<n, d>> (d > 0, lowest terms) on inputs for which      *)
(* every square root the code takes is rational.  The zonal coefficients   *)
(* J2..J6 are kept in units of 1e-8, so a quantity that is linear in them  *)
(* is a pair [c |-> plain part, j |-> part in units of 1e-8].              *)
(* Angles are counted in quarter turns, where sine and cosine are exact.   *)
(***************************************************************************)
EXTENDS Integers, Sequences, FiniteSets, TLC

VARIABLES ham, zg, ct, calls, last

vars == <<ham, zg, ct, calls, last>>

(***************************************************************************)
(* Bounds of the model.                                                    *)
(***************************************************************************)
\* largest sample count m of a batch
MaxM == 2

(***************************************************************************)
(* Exact rational arithmetic.                                              *)
(***************************************************************************)
Abs(x) == IF x < 0 THEN -x ELSE x

RECURSIVE GCD(_, _)
GCD(a, b) == IF b = 0 THEN a ELSE GCD(b, a % b)

Rat(n, d) ==
  LET g == GCD(Abs(n), Abs(d))
      s == IF d < 0 THEN -1 ELSE 1
  IN <<(s * n) \div g, (s * d) \div g>>

R(n) == <<n, 1>>

RAdd(a, b) ==
  LET g == GCD(a[2], b[2])
  IN Rat(a[1] * (b[2] \div g) + b[1] * (a[2] \div g), (a[2] \div g) * b[2])

RNeg(a) == <<-a[1], a[2]>>

RSub(a, b) == RAdd(a, RNeg(b))

RMul(a, b) ==
  LET g1 == GCD(Abs(a[1]), b[2])
      g2 == GCD(Abs(b[1]), a[2])
  IN Rat((a[1] \div g1) * (b[1] \div g2), (a[2] \div g2) * (b[2] \div g1))

RDiv(a, b) == RMul(a, Rat(b[2], b[1]))

RECURSIVE RPow(_, _)
RPow(a, k) == IF k = 0 THEN R(1) ELSE RMul(a, RPow(a, k - 1))

ISqrt(n) == CHOOSE k \in 0..n : k * k <= n /\ n < (k + 1) * (k + 1)

\* square root of a rational that is the square of a rational
RSqrt(a) == <<ISqrt(a[1]), ISqrt(a[2])>>

RECURSIVE RSum(_)
RSum(s) == IF s = <<>> THEN R(0) ELSE RAdd(s[1], RSum(Tail(s)))

(***************************************************************************)
(* Python and numpy semantics the code relies on.                          *)
(***************************************************************************)
\* s[start:stop] for start >= 0: a negative stop counts from the end, and
\* both ends are clamped to the sequence
PySlice(s, start, stop) ==
  LET n == Len(s)
      hi0 == IF stop < 0 THEN stop + n ELSE stop
      hi == IF hi0 < 0 THEN 0 ELSE IF hi0 > n THEN n ELSE hi0
      lo == IF start > n THEN n ELSE start
  IN IF hi <= lo THEN <<>> ELSE [i \in 1..(hi - lo) |-> s[lo + i]]

\* X[:, a:b]
Cols(X, a, b) == [i \in 1..Len(X) |-> PySlice(X[i], a, b)]

\* sample count and column count of a 2-d batch
Rows(X) == Len(X)

Width(X) == IF Len(X) = 0 THEN 0 ELSE Len(X[1])

RECURSIVE SumSq(_)
SumSq(v) == IF v = <<>> THEN 0 ELSE v[1] * v[1] + SumSq(Tail(v))

\* np.linalg.norm(A, ord=2, axis=1): one norm per row, 0 for an empty row
NormRows(A) == [i \in 1..Len(A) |-> ISqrt(SumSq(A[i]))]

Ok(v) == [tag |-> "ok", val |-> v]

Raise(e) == [tag |-> e, val |-> <<>>]

\* A.reshape(shape) keeps the elements and fails when the counts differ
RECURSIVE Size(_)
Size(shape) == IF shape = <<>> THEN 1 ELSE shape[1] * Size(Tail(shape))

(***************************************************************************)
(* src/rv/hamiltonian.py                                                   *)
(***************************************************************************)
\* a missing keyword argument takes the default of the signature
Arg(kw, name, default) == IF name \in DOMAIN kw THEN kw[name] ELSE default

HamiltonianDefaultMu == 1

HamiltonianDefaultOrder == 1

HamiltonianDefaultREarth == 1

\* Hamiltonian.__init__(self, mu=1.0, order=1, r_earth=1.0)
HamiltonianInit(kw) ==
  [cls |-> "Hamiltonian",
   mu |-> Arg(kw, "mu", HamiltonianDefaultMu),
   order |-> Arg(kw, "order", HamiltonianDefaultOrder),
   r_earth |-> Arg(kw, "r_earth", HamiltonianDefaultREarth)]

\* J2_to_6, in units of 1e-8
J2_to_6 == <<108263, -252, -161, -15, 57>>

\* the divisors 2., 2., 8., 8., 16. of the J2..J6 terms
TermDivisor == <<2, 2, 8, 8, 16>>

\* the polynomial in sin_phi of the term that reads J[i]
HarmonicPoly(i, s) ==
  CASE i = 0 -> RSub(RMul(R(3), RPow(s, 2)), R(1))
    [] i = 1 -> RSub(RMul(R(5), RPow(s, 3)), RMul(R(3), s))
    [] i = 2 -> RAdd(RSub(RMul(R(35), RPow(s, 4)), RMul(R(30), RPow(s, 2))), R(3))
    [] i = 3 -> RAdd(RSub(RMul(R(63), RPow(s, 5)), RMul(R(70), RPow(s, 3))),
                     RMul(R(15), s))
    [] i = 4 -> RSub(RAdd(RSub(RMul(R(231), RPow(s, 6)), RMul(R(315), RPow(s, 4))),
                          RMul(R(105), RPow(s, 2))), R(5))

\* -J[i]/d * self.mu/r * (self.r_earth/r)**(i+2) * poly, with Ji = J[i]
PotentialTerm(i, Ji, mu, r, re, s) ==
  RMul(RMul(RMul(Rat(-Ji, TermDivisor[i + 1]), RDiv(R(mu), R(r))),
            RPow(RDiv(R(re), R(r)), i + 2)),
       HarmonicPoly(i, s))

\* a slice one element longer: J2_to_6[0:self.order]
HarmonicSliceToOrder(order) == PySlice(J2_to_6, 0, order)

\* J = J2_to_6[0:self.order-1]
HarmonicSlice(order) == PySlice(J2_to_6, 0, order - 1)

\* the try block: the statements V -= ... J[0] ..., ..., V -= ... J[4] ... run in
\* order; the first J[i] with i >= len(J) raises IndexError before V is
\* touched, and the handler passes, skipping the statements after it
RECURSIVE TryTerms(_, _, _, _, _, _, _)
TryTerms(V, J, i, mu, r, re, s) ==
  IF i > 4 THEN V
  ELSE IF i >= Len(J) THEN V
  ELSE TryTerms([V EXCEPT !.j = RSub(V.j, PotentialTerm(i, J[i + 1], mu, r, re, s))],
                J, i + 1, mu, r, re, s)

\* Hamiltonian.__call__(self, T, X): the (m, 1) batch returned, or the error
\* raised, with self, T and X as the call leaves them
HamiltonianCall(self, T, X) ==
  LET z == Cols(X, 2, 3)
      r == NormRows(Cols(X, 0, 3))
      v == NormRows(Cols(X, 3, 6))
      J == HarmonicSlice(self.order)
      H(i) == LET sin_phi == Rat(z[i][1], r[i])
                  V0 == [c |-> Rat(-self.mu, r[i]), j |-> R(0)]
                  V == TryTerms(V0, J, 0, self.mu, r[i], self.r_earth, sin_phi)
              IN [V EXCEPT !.c = RAdd(Rat(v[i] * v[i], 2), V.c)]
      ret == IF Size(<<Rows(X)>>) # Size(<<Rows(z), Width(z)>>)
             THEN Raise("ValueError")      \* .reshape(z.shape)
             ELSE Ok([i \in 1..Rows(X) |-> H(i)])
  IN [ret |-> ret, self |-> self, T |-> T, X |-> X]

(***************************************************************************)
(* The hub of the conversion graph and the matrices of the Gauss           *)
(* variational equations: orbital_elements.convert.{mee_rv, rv_mee,        *)
(* mee_coe, rv_coe, meeMl0_mee, mee_meeMl0}, orbital_elements.coe.gve,     *)
(* orbital_elements.meeMl0.gve and orbital_elements.rv.zonal_gravity.      *)
(* Their sources are not among the files modelled here; they are written   *)
(* from the specification (sections 3, 4.1, 4.2, 4.3) and the standard     *)
(* two-body relations it refers to.                                        *)
(*                                                                         *)
(* An RV row is six rationals.  A COE row is <<a, e, i, W, w, nu>> and a   *)
(* MEE row <<p, f, g, h, k, L>>, with rational a, e, p, f, g, h, k and the *)
(* angles i, W, w, nu, L in quarter turns.  A time t stands for t steps of *)
(* 125*pi/64 time units, in which a mean motion n sweeps n*125/32 quarter  *)
(* turns.  The rows used are orbits of eccentricity 3/5 at an apsis, where *)
(* mean and true longitude coincide and every square root is rational.     *)
(***************************************************************************)
Cos4(k) == CASE k % 4 = 0 -> 1 [] k % 4 = 1 -> 0 [] k % 4 = 2 -> -1 [] k % 4 = 3 -> 0

Sin4(k) == Cos4(k - 1)

RI(a, n) == RMul(a, R(n))

VDot(a, b) == RAdd(RAdd(RMul(a[1], b[1]), RMul(a[2], b[2])), RMul(a[3], b[3]))

VCross(a, b) ==
  <<RSub(RMul(a[2], b[3]), RMul(a[3], b[2])),
    RSub(RMul(a[3], b[1]), RMul(a[1], b[3])),
    RSub(RMul(a[1], b[2]), RMul(a[2], b[1]))>>

VScale(c, a) == <<RMul(c, a[1]), RMul(c, a[2]), RMul(c, a[3])>>

VSub(a, b) == <<RSub(a[1], b[1]), RSub(a[2], b[2]), RSub(a[3], b[3])>>

VNorm(a) == RSqrt(VDot(a, a))

VUnit(a) == VScale(RDiv(R(1), VNorm(a)), a)

\* the quarter turn whose cosine and sine are c and s
AngleOf(c, s) == CHOOSE k \in 0..3 : R(Cos4(k)) = c /\ R(Sin4(k)) = s

\* the equinoctial frame vectors of node components h, k
EquinoctialF(h, k) ==
  LET s2 == RAdd(R(1), RAdd(RMul(h, h), RMul(k, k)))
  IN VScale(RDiv(R(1), s2),
            <<RAdd(RSub(R(1), RMul(k, k)), RMul(h, h)), RI(RMul(h, k), 2), RI(k, -2)>>)

EquinoctialG(h, k) ==
  LET s2 == RAdd(R(1), RAdd(RMul(h, h), RMul(k, k)))
  IN VScale(RDiv(R(1), s2),
            <<RI(RMul(h, k), 2), RSub(RAdd(R(1), RMul(k, k)), RMul(h, h)), RI(h, 2)>>)

\* one row of mee_rv(rv, mu): RV to MEE
MeeOfRv(x, mu) ==
  LET r == <<x[1], x[2], x[3]>>
      v == <<x[4], x[5], x[6]>>
      hvec == VCross(r, v)
      w == VUnit(hvec)
      p == RDiv(VDot(hvec, hvec), R(mu))
      k == RDiv(w[1], RAdd(R(1), w[3]))
      h == RNeg(RDiv(w[2], RAdd(R(1), w[3])))
      fhat == EquinoctialF(h, k)
      ghat == EquinoctialG(h, k)
      rhat == VUnit(r)
      evec == VSub(VScale(RDiv(R(1), R(mu)), VCross(v, hvec)), rhat)
  IN <<p, VDot(evec, fhat), VDot(evec, ghat), h, k,
       AngleOf(VDot(rhat, fhat), VDot(rhat, ghat))>>

\* one row of rv_mee(mee, mu): MEE to RV
RvOfMee(x, mu) ==
  LET p == x[1]  f == x[2]  g == x[3]  h == x[4]  k == x[5]
      cL == R(Cos4(x[6]))
      sL == R(Sin4(x[6]))
      q == RAdd(R(1), RAdd(RMul(f, cL), RMul(g, sL)))
      r == RDiv(p, q)
      sv == RDiv(RSqrt(R(mu)), RSqrt(p))
      fhat == EquinoctialF(h, k)
      ghat == EquinoctialG(h, k)
      pos(c) == RMul(r, RAdd(RMul(cL, fhat[c]), RMul(sL, ghat[c])))
      vel(c) == RMul(sv, RSub(RMul(RAdd(cL, f), ghat[c]), RMul(RAdd(sL, g), fhat[c])))
  IN <<pos(1), pos(2), pos(3), vel(1), vel(2), vel(3)>>

\* one row of mee_coe(coe): COE to MEE, tan(i/2) being 0 at i = 0 and 1 at
\* a quarter turn
MeeOfCoe(x) ==
  LET a == x[1]  e == x[2]  i == x[3]  W == x[4]  w == x[5]  nu == x[6]
      tanhalf == R(i)
  IN <<RMul(a, RSub(R(1), RMul(e, e))),
       RI(e, Cos4(W + w)), RI(e, Sin4(W + w)),
       RI(tanhalf, Cos4(W)), RI(tanhalf, Sin4(W)),
       W + w + nu>>

\* mean motion n = mu^(1/2) * p^(-3/2) * (1 - f^2 - g^2)^(3/2)
MeanMotion(x, mu) ==
  RDiv(RMul(RSqrt(R(mu)),
            RPow(RSqrt(RSub(R(1), RAdd(RMul(x[2], x[2]), RMul(x[3], x[3])))), 3)),
       RPow(RSqrt(x[1]), 3))

\* quarter turns swept in t time steps at the mean motion of row x
LongitudeOffset(x, t, mu) == RI(RMul(MeanMotion(x, mu), Rat(125, 32)), t)[1]

mee_rv(rv, mu) == [i \in 1..Len(rv) |-> MeeOfRv(rv[i], mu)]

rv_mee(mee, mu) == [i \in 1..Len(mee) |-> RvOfMee(mee[i], mu)]

mee_coe(coe) == [i \in 1..Len(coe) |-> MeeOfCoe(coe[i])]

\* COE to RV, composed through MEE
rv_coe(coe, mu) == rv_mee(mee_coe(coe), mu)

\* meeMl0_mee(T, mee, mu): the longitude referred back to epoch 0
meeMl0_mee(T, mee, mu) ==
  [i \in 1..Len(mee) |->
     [mee[i] EXCEPT ![6] = mee[i][6] - LongitudeOffset(mee[i], T[i], mu)]]

\* mee_meeMl0(T, meeMl0, mu): the same offset added back
mee_meeMl0(T, meeMl0, mu) ==
  [i \in 1..Len(meeMl0) |->
     [meeMl0[i] EXCEPT ![6] = meeMl0[i][6] + LongitudeOffset(meeMl0[i], T[i], mu)]]

\* the default mu=1.0 of every hub converter and of the GVE constructors
HubDefaultMu == 1

\* orbital_elements.coe.gve: GVE(mu)(T, X), one 6x3 matrix per sample, from
\* the Gauss equations in classical elements (finite for e # 0 and i # 0)
CoeGveMatrix(x, mu) ==
  LET a == x[1]  e == x[2]
      ci == R(Cos4(x[3]))   si == R(Sin4(x[3]))
      cn == R(Cos4(x[6]))   sn == R(Sin4(x[6]))
      cth == R(Cos4(x[5] + x[6]))
      sth == R(Sin4(x[5] + x[6]))
      p == RMul(a, RSub(R(1), RMul(e, e)))
      r == RDiv(p, RAdd(R(1), RMul(e, cn)))
      hinv == RDiv(R(1), RMul(RSqrt(R(mu)), RSqrt(p)))
      he == RDiv(hinv, e)
      pr == RAdd(p, r)
  IN << <<RMul(RI(RMul(a, a), 2), RMul(hinv, RMul(e, sn))),
          RMul(RI(RMul(a, a), 2), RMul(hinv, RDiv(p, r))), R(0)>>,
        <<RMul(hinv, RMul(p, sn)),
          RMul(hinv, RAdd(RMul(pr, cn), RMul(r, e))), R(0)>>,
        <<R(0), R(0), RMul(hinv, RMul(r, cth))>>,
        <<R(0), R(0), RDiv(RMul(hinv, RMul(r, sth)), si)>>,
        <<RNeg(RMul(he, RMul(p, cn))), RMul(he, RMul(pr, sn)),
          RNeg(RDiv(RMul(hinv, RMul(r, RMul(sth, ci))), si))>>,
        <<RMul(he, RMul(p, cn)), RNeg(RMul(he, RMul(pr, sn))), R(0)>> >>

CoeGVE(mu, T, X) == [i \in 1..Len(X) |-> CoeGveMatrix(X[i], mu)]

\* orbital_elements.meeMl0.gve: GVE(mu)(T, X), the Gauss equations in
\* equinoctial elements at the true longitude the row has at its time
MeeMl0GveMatrix(t, x, mu) ==
  LET y == mee_meeMl0(<<t>>, <<x>>, mu)[1]
      p == y[1]  f == y[2]  g == y[3]  h == y[4]  k == y[5]
      cL == R(Cos4(y[6]))
      sL == R(Sin4(y[6]))
      q == RAdd(R(1), RAdd(RMul(f, cL), RMul(g, sL)))
      sp == RDiv(RSqrt(p), RSqrt(R(mu)))
      spq == RDiv(sp, q)
      s2 == RAdd(R(1), RAdd(RMul(h, h), RMul(k, k)))
      chi == RSub(RMul(h, sL), RMul(k, cL))
  IN << <<R(0), RMul(RI(p, 2), spq), R(0)>>,
        <<RMul(sp, sL), RMul(spq, RAdd(RMul(RAdd(q, R(1)), cL), f)),
          RNeg(RMul(spq, RMul(g, chi)))>>,
        <<RNeg(RMul(sp, cL)), RMul(spq, RAdd(RMul(RAdd(q, R(1)), sL), g)),
          RMul(spq, RMul(f, chi))>>,
        <<R(0), R(0), RMul(spq, RMul(Rat(1, 2), RMul(s2, cL)))>>,
        <<R(0), R(0), RMul(spq, RMul(Rat(1, 2), RMul(s2, sL)))>>,
        <<R(0), R(0), RMul(spq, chi)>> >>

MeeMl0GVE(mu, T, X) == [i \in 1..Len(X) |-> MeeMl0GveMatrix(T[i], X[i], mu)]

\* the derivative in sin_phi of the polynomial of the term that reads J[i]
HarmonicPolyDeriv(i, s) ==
  CASE i = 0 -> RI(s, 6)
    [] i = 1 -> RSub(RI(RPow(s, 2), 15), R(3))
    [] i = 2 -> RSub(RI(RPow(s, 3), 140), RI(s, 60))
    [] i = 3 -> RAdd(RSub(RI(RPow(s, 4), 315), RI(RPow(s, 2), 210)), R(15))
    [] i = 4 -> RAdd(RSub(RI(RPow(s, 5), 1386), RI(RPow(s, 3), 1260)), RI(s, 210))

\* orbital_elements.rv.zonal_gravity: ZonalGravity(mu, order, r_earth)
\* .lvlh_acceleration(T, X), one (radial, transverse, normal) row per sample
\* in units of 1e-8: minus the gradient of the potential terms of J2..J_order
LvlhAccelerationRow(x, mu, order, re) ==
  LET rv == <<x[1], x[2], x[3]>>
      r == VNorm(rv)
      rhat == VUnit(rv)
      what == VUnit(VCross(rv, <<x[4], x[5], x[6]>>))
      that == VCross(what, rhat)
      s == rhat[3]
      scale(i) == RMul(RI(RDiv(R(mu), RMul(r, r)), J2_to_6[i + 1]),
                       RDiv(RPow(RDiv(R(re), r), i + 2), R(TermDivisor[i + 1])))
      radial(i) == RI(RMul(scale(i), HarmonicPoly(i, s)), i + 3)
      axial(i) == RNeg(RMul(scale(i), HarmonicPolyDeriv(i, s)))
      nterms == IF order < 2 THEN 0 ELSE order - 1
      sumR == RSum([n \in 1..nterms |-> radial(n - 1)])
      sumZ == RSum([n \in 1..nterms |-> axial(n - 1)])
  IN <<sumR, RMul(sumZ, that[3]), RMul(sumZ, what[3])>>

LvlhAcceleration(mu, order, re, T, X) ==
  [i \in 1..Len(X) |-> LvlhAccelerationRow(X[i], mu, order, re)]

(***************************************************************************)
(* numpy: matrix product and reshape                                       *)
(***************************************************************************)
\* one 6x3 matrix times one 3-vector
MatVec(G, a) == [j \in 1..Len(G) |-> RSum([k \in 1..Len(a) |-> RMul(G[j][k], a[k])])]

(***************************************************************************)
(* src/convert/meeMl0_coe.py, meeMl0_rv.py, rv_meeMl0.py                   *)
(***************************************************************************)
\* meeMl0_coe(T, coe, mu=1.0): return meeMl0_mee(T, mee_coe(coe))
meeMl0_coe(T, coe, mu) == meeMl0_mee(T, mee_coe(coe), HubDefaultMu)

\* meeMl0_rv(T, rv, mu=1.0): return meeMl0_mee(T, mee_rv(rv))
meeMl0_rv(T, rv, mu) == meeMl0_mee(T, mee_rv(rv, HubDefaultMu), HubDefaultMu)

\* a variant that hands mu to the longitude step alone
rv_meeMl0_MuInOffsetOnly(T, meeMl0, mu) ==
  rv_mee(mee_meeMl0(T, meeMl0, mu), HubDefaultMu)

\* rv_meeMl0(T, meeMl0, mu=1.0): return rv_mee(mee_meeMl0(T, meeMl0))
rv_meeMl0(T, meeMl0, mu) == rv_mee(mee_meeMl0(T, meeMl0, HubDefaultMu), HubDefaultMu)

(***************************************************************************)
(* src/coe/zonal_gravity.py                                                *)
(***************************************************************************)
ZonalGravityDefaultMu == 1

ZonalGravityDefaultOrder == 2

ZonalGravityDefaultREarth == 1

\* ZonalGravity.__init__(self, mu=1.0, order=2, r_earth=1.0)
ZonalGravityInit(kw) ==
  [cls |-> "ZonalGravity",
   mu |-> Arg(kw, "mu", ZonalGravityDefaultMu),
   order |-> Arg(kw, "order", ZonalGravityDefaultOrder),
   r_earth |-> Arg(kw, "r_earth", ZonalGravityDefaultREarth)]

\* (G @ a_d.reshape((m, 3, 1))).reshape((m, 6))
RatesOf(G, a_d, m) ==
  IF Len(a_d) # m \/ Len(G) # m THEN Raise("ValueError")
  ELSE Ok([i \in 1..m |-> MatVec(G[i], a_d[i])])

\* ZonalGravity.__call__(self, T, X)
ZonalGravityCall(self, T, X) ==
  LET a_d == LvlhAcceleration(self.mu, self.order, self.r_earth, T,
                              rv_coe(X, HubDefaultMu))
      G == CoeGVE(HubDefaultMu, T, X)
      m == Rows(T)
  IN [ret |-> RatesOf(G, a_d, m), self |-> self, T |-> T, X |-> X]

(***************************************************************************)
(* src/meeMl0/constant_thrust.py                                           *)
(***************************************************************************)
ConstantThrustDefaultMu == 1

\* the empty array np.array([])
EmptyArray == [shape |-> <<0>>, data |-> <<>>]

\* ConstantThrust.__init__(self, vector, mu=1.0)
ConstantThrustInit(vector, kw) ==
  [cls |-> "ConstantThrust",
   vector |-> vector,
   mu |-> Arg(kw, "mu", ConstantThrustDefaultMu),
   u |-> EmptyArray]

\* line 53: np.tile(self.vector, (m, 1, 1)); an array of fewer than three
\* dimensions is first given leading axes of length 1.  data holds the m
\* blocks of the result
TileVector(vector, m) ==
  LET sh == vector.shape
      tail == IF Len(sh) = 1 THEN <<1, sh[1]>> ELSE sh
  IN [shape |-> <<m>> \o tail, data |-> [i \in 1..m |-> vector.data]]

\* a variant that stores u as tiled, without the reshape
StoredUAsTiled(u, m) == u

\* line 55: the value u.reshape((m, 3)) assigned to self.u
StoredU(u, m) == [shape |-> <<m, 3>>, data |-> u.data]

\* a variant that multiplies by the cached field: (G @ self.u.reshape((m, 3, 1)))
ReturnValueFromCache(self, G, u, m) ==
  IF Size(self.u.shape) # Size(<<m, 3, 1>>) THEN Raise("ValueError")
  ELSE Ok([i \in 1..m |-> MatVec(G[i], self.u.data[i])])

\* line 57: (G @ u).reshape((m, 6)): the product is defined when the blocks
\* of u are 3x1, and has one 6x1 block per sample
ReturnValue(self, G, u, m) ==
  IF u.shape[1] # Len(G) \/ u.shape[2] # 3 THEN Raise("ValueError")
  ELSE IF Size(<<Len(G), 6, u.shape[3]>>) # Size(<<m, 6>>) THEN Raise("ValueError")
  ELSE Ok([i \in 1..m |-> MatVec(G[i], u.data[i])])

\* ConstantThrust.__call__(self, T, X), run without interruption
ConstantThrustCall(self, T, X) ==
  LET m == Rows(T)
      u == TileVector(self.vector, m)
      G == MeeMl0GVE(self.mu, T, X)
      self1 == [self EXCEPT !.u = StoredU(u, m)]
  IN [ret |-> ReturnValue(self1, G, u, m), self |-> self1, T |-> T, X |-> X]

(***************************************************************************)
(* The inputs.                                                             *)
(***************************************************************************)
\* a time batch is a grid t0, t0 + 1, ... of m samples
TimeBatches(starts, m) == {[i \in 1..m |-> t0 + i - 1] : t0 \in starts}

\* the batches of m rows of one width drawn from rows
Batches(rows, m) == {X \in [1..m -> rows] : \A i \in 1..m : Len(X[i]) = Len(X[1])}

\* a time batch and a state batch, of sample counts that may differ
Unmatched(starts, rows) ==
  (UNION {TimeBatches(starts, m) : m \in 1..MaxM})
    \X (UNION {Batches(rows, m) : m \in 1..MaxM})

\* a time batch and a state batch of the same sample count
Matched(starts, rows) ==
  UNION {TimeBatches(starts, m) \X Batches(rows, m) : m \in 1..MaxM}

\* keyword arguments: each name absent or bound to one of its values
KwArgs(choices) ==
  {kw \in UNION {[D -> UNION {choices[n] : n \in DOMAIN choices}] :
                   D \in SUBSET DOMAIN choices} :
     \A n \in DOMAIN kw : kw[n] \in choices[n]}

\* RV rows for the Hamiltonian (integers), the last two too narrow
HamiltonianRows ==
  {<<0, 0, 2, 0, 1, 0>>, <<0, 0, -1, 2, 0, 0>>, <<0, 0, 2>>, <<1, 0>>}

HamiltonianKw ==
  KwArgs([mu |-> {2}, order |-> -5..8, r_earth |-> {2}])

\* RV rows: the periapsis of an orbit with p = 1, e = 3/5 under mu = 1
RvRows ==
  {<<Rat(5, 8), R(0), R(0), R(0), Rat(8, 5), R(0)>>,
   <<R(0), Rat(5, 8), R(0), Rat(-8, 5), R(0), R(0)>>,
   <<Rat(-5, 8), R(0), R(0), R(0), R(0), Rat(8, 5)>>}

\* COE rows: a = 25/16, e = 3/5, a polar orbit
CoeRows ==
  {<<Rat(25, 16), Rat(3, 5), 1, 0, 0, 1>>,
   <<Rat(25, 16), Rat(3, 5), 1, 0, 1, 1>>,
   <<Rat(25, 16), Rat(3, 5), 1, 1, 0, 2>>}

\* MEE-with-epoch-longitude rows: p = 1, e = 3/5, epoch longitude on the
\* line of apsides
MeeMl0Rows ==
  {<<R(1), Rat(3, 5), R(0), R(0), R(0), 0>>,
   <<R(1), R(0), Rat(-3, 5), R(1), R(0), 1>>}

\* the mu a caller passes to a converter
MuValues == {1, 4}

ZonalGravityKw == KwArgs([mu |-> {4}, order |-> {1, 3}])

\* the thrust vector as a (3, 1) column, a flat (3,) array and a (1, 3) row
Vectors ==
  {[shape |-> <<3, 1>>, data |-> <<R(1), Rat(1, 2), R(-1)>>],
   [shape |-> <<3>>, data |-> <<R(1), Rat(1, 2), R(-1)>>],
   [shape |-> <<1, 3>>, data |-> <<R(1), Rat(1, 2), R(-1)>>]}

ConstantThrustKw == KwArgs([mu |-> {4}])

\* the threads calling one ConstantThrust object
Procs == {1, 2}

(***************************************************************************)
(* State.  ham, zg, ct: the object of the run (one of them; the others do  *)
(* not exist).  last: the latest call of a function or of ham or zg, from  *)
(* its entry (pc "running") to its return (pc "returned", with out: what   *)
(* it returned and how it left self, T and X); in a run of a ConstantThrust *)
(* object it stays the record of the construction.  calls[p]: the frame of *)
(* thread p inside ConstantThrust.__call__ (its arguments and locals).     *)
(***************************************************************************)
NoObject == [cls |-> "None"]

Idle == [pc |-> "idle"]

NoCall == [op |-> "none", pc |-> "returned"]

Constructed(op, kw, self) == [op |-> op, pc |-> "returned", kw |-> kw, self |-> self]

Entered(op, self, T, X, mu) ==
  [op |-> op, pc |-> "running", pre |-> self, T |-> T, X |-> X, mu |-> mu]

Returned(frame, out) ==
  [op |-> frame.op, pc |-> "returned", pre |-> frame.pre, T |-> frame.T,
   X |-> frame.X, mu |-> frame.mu, out |-> out]

InitHamiltonian ==
  \E kw \in HamiltonianKw :
    /\ ham = HamiltonianInit(kw)
    /\ zg = NoObject /\ ct = NoObject
    /\ last = Constructed("Hamiltonian.__init__", kw, HamiltonianInit(kw))

InitZonalGravity ==
  \E kw \in ZonalGravityKw :
    /\ zg = ZonalGravityInit(kw)
    /\ ham = NoObject /\ ct = NoObject
    /\ last = Constructed("ZonalGravity.__init__", kw, ZonalGravityInit(kw))

InitConstantThrust ==
  \E vector \in Vectors, kw \in ConstantThrustKw :
    /\ ct = ConstantThrustInit(vector, kw)
    /\ ham = NoObject /\ zg = NoObject
    /\ last = Constructed("ConstantThrust.__init__", kw, ConstantThrustInit(vector, kw))

Init ==
  /\ calls = [p \in Procs |-> Idle]
  /\ (InitHamiltonian \/ InitZonalGravity \/ InitConstantThrust)

\* a caller enters Hamiltonian.__call__(self, T, X)
CallHamiltonian ==
  /\ ham.cls = "Hamiltonian"
  /\ last.pc = "returned"
  /\ \E TX \in Unmatched({0}, HamiltonianRows) :
       last' = Entered("Hamiltonian.__call__", ham, TX[1], TX[2], ham.mu)
  /\ UNCHANGED <<ham, zg, ct, calls>>

\* Hamiltonian.__call__ runs and returns
ReturnHamiltonian ==
  /\ last.pc = "running"
  /\ last.op = "Hamiltonian.__call__"
  /\ LET out == HamiltonianCall(ham, last.T, last.X)
     IN /\ ham' = out.self
        /\ last' = Returned(last, out)
  /\ UNCHANGED <<zg, ct, calls>>

\* a caller enters ZonalGravity.__call__(self, T, X)
CallZonalGravity ==
  /\ zg.cls = "ZonalGravity"
  /\ last.pc = "returned"
  /\ \E TX \in Matched({0, 1}, CoeRows) :
       last' = Entered("ZonalGravity.__call__", zg, TX[1], TX[2], zg.mu)
  /\ UNCHANGED <<ham, zg, ct, calls>>

\* ZonalGravity.__call__ runs and returns
ReturnZonalGravity ==
  /\ last.pc = "running"
  /\ last.op = "ZonalGravity.__call__"
  /\ LET out == ZonalGravityCall(zg, last.T, last.X)
     IN /\ zg' = out.self
        /\ last' = Returned(last, out)
  /\ UNCHANGED <<ham, ct, calls>>

\* a thread enters ConstantThrust.__call__(self, T, X)
ThrustBegin(p) ==
  /\ ct.cls = "ConstantThrust"
  /\ calls[p].pc = "idle"
  /\ \E TX \in Matched({1}, MeeMl0Rows) :
       calls' = [calls EXCEPT ![p] =
                   [pc |-> "locals", T |-> TX[1], X |-> TX[2]]]
  /\ UNCHANGED <<ham, zg, ct, last>>

\* lines 52-54, which assign locals only:
\*   m = T.shape[0]; u = np.tile(self.vector, (m, 1, 1)); G = GVE(mu=self.mu)(T, X)
ThrustLocals(p) ==
  /\ calls[p].pc = "locals"
  /\ LET m == Rows(calls[p].T)
     IN calls' = [calls EXCEPT ![p] =
          [pc |-> "store", T |-> @.T, X |-> @.X, m |-> m,
           u |-> TileVector(ct.vector, m),
           G |-> MeeMl0GVE(ct.mu, @.T, @.X)]]
  /\ UNCHANGED <<ham, zg, ct, last>>

\* line 55: self.u = u.reshape((m, 3))
ThrustStore(p) ==
  /\ calls[p].pc = "store"
  /\ ct' = [ct EXCEPT !.u = StoredU(calls[p].u, calls[p].m)]
  /\ calls' = [calls EXCEPT ![p].pc = "return"]
  /\ UNCHANGED <<ham, zg, last>>

\* line 57: return (G @ u).reshape((m, 6))
ThrustReturn(p) ==
  /\ calls[p].pc = "return"
  /\ calls' = [calls EXCEPT ![p] =
       [pc |-> "done", T |-> @.T, X |-> @.X, m |-> @.m, u |-> @.u, G |-> @.G,
        ret |-> ReturnValue(ct, @.G, @.u, @.m)]]
  /\ UNCHANGED <<ham, zg, ct, last>>

\* the caller has the result; the thread is free for its next call
ThrustDone(p) ==
  /\ calls[p].pc = "done"
  /\ calls' = [calls EXCEPT ![p] = Idle]
  /\ UNCHANGED <<ham, zg, ct, last>>

Next ==
  \/ CallHamiltonian
  \/ ReturnHamiltonian
  \/ CallZonalGravity
  \/ ReturnZonalGravity
  \/ \E p \in Procs : ThrustBegin(p)
  \/ \E p \in Procs : ThrustLocals(p)
  \/ \E p \in Procs : ThrustStore(p)
  \/ \E p \in Procs : ThrustReturn(p)
  \/ \E p \in Procs : ThrustDone(p)

Spec == Init /\ [][Next]_vars

(***************************************************************************)
(* The converters, called as functions: no object exists.                  *)
(***************************************************************************)
InitConvert ==
  /\ ham = NoObject /\ zg = NoObject /\ ct = NoObject
  /\ calls = [p \in Procs |-> Idle]
  /\ last = NoCall

\* a caller enters meeMl0_coe(T, coe, mu)
CallMeeMl0Coe ==
  /\ last.pc = "returned"
  /\ \E TX \in Matched({0, 1}, CoeRows), mu \in MuValues :
       last' = Entered("meeMl0_coe", NoObject, TX[1], TX[2], mu)
  /\ UNCHANGED <<ham, zg, ct, calls>>

\* a caller enters meeMl0_rv(T, rv, mu)
CallMeeMl0Rv ==
  /\ last.pc = "returned"
  /\ \E TX \in Matched({0, 1}, RvRows), mu \in MuValues :
       last' = Entered("meeMl0_rv", NoObject, TX[1], TX[2], mu)
  /\ UNCHANGED <<ham, zg, ct, calls>>

\* a caller enters rv_meeMl0(T, meeMl0, mu)
CallRvMeeMl0 ==
  /\ last.pc = "returned"
  /\ \E TX \in Matched({0, 1}, MeeMl0Rows), mu \in MuValues :
       last' = Entered("rv_meeMl0", NoObject, TX[1], TX[2], mu)
  /\ UNCHANGED <<ham, zg, ct, calls>>

\* a caller that has the result of meeMl0_rv(T, rv, mu) passes it on to
\* rv_meeMl0 with the same T and mu
CallRoundTrip ==
  /\ last.pc = "returned"
  /\ last.op = "meeMl0_rv"
  /\ last' = [Entered("rv_meeMl0", NoObject, last.T, last.out.ret.val, last.mu)
                EXCEPT !.pre = [cls |-> "None", rv |-> last.X]]
  /\ UNCHANGED <<ham, zg, ct, calls>>

\* the converter runs and returns
ReturnConvert ==
  /\ last.pc = "running"
  /\ last.op \in {"meeMl0_coe", "meeMl0_rv", "rv_meeMl0"}
  /\ LET val == CASE last.op = "meeMl0_coe" -> meeMl0_coe(last.T, last.X, last.mu)
                  [] last.op = "meeMl0_rv" -> meeMl0_rv(last.T, last.X, last.mu)
                  [] last.op = "rv_meeMl0" -> rv_meeMl0(last.T, last.X, last.mu)
     IN last' = Returned(last, [ret |-> Ok(val), T |-> last.T, X |-> last.X])
  /\ UNCHANGED <<ham, zg, ct, calls>>

NextConvert ==
  \/ CallMeeMl0Coe
  \/ CallMeeMl0Rv
  \/ CallRvMeeMl0
  \/ CallRoundTrip
  \/ ReturnConvert

SpecConvert == InitConvert /\ [][NextConvert]_vars

(***************************************************************************)
(* Properties.                                                             *)
(***************************************************************************)
HasReturned(op) == last.op = op /\ last.pc = "returned"

Converters == {"meeMl0_coe", "meeMl0_rv", "rv_meeMl0"}

C2_CallerMuInEveryStep ==
  (last.pc = "returned" /\ last.op \in Converters)
    => last.out.ret.val =
         CASE last.op = "meeMl0_coe" -> meeMl0_mee(last.T, mee_coe(last.X), last.mu)
           [] last.op = "meeMl0_rv" ->
                meeMl0_mee(last.T, mee_rv(last.X, last.mu), last.mu)
           [] last.op = "rv_meeMl0" ->
                rv_mee(mee_meeMl0(last.T, last.X, last.mu), last.mu)

\* C3: a Hamiltonian of harmonic order outside 1..6 fails with
\* UnsupportedOrder when called and returns no energy batch.
C3_UnsupportedOrderRaised ==
  (HasReturned("Hamiltonian.__call__") /\ last.pre.order \notin 1..6
     /\ Width(last.X) = 6)
    => last.out.ret.tag = "UnsupportedOrder"

\* the energy of one sample as the sum the claim C4 states: the two-body
\* part and the terms of J2..Jk added one by one
TwoBodyEnergy(x, mu) ==
  LET r == ISqrt(SumSq(<<x[1], x[2], x[3]>>))
      v2 == SumSq(<<x[4], x[5], x[6]>>)
  IN RSub(Rat(v2, 2), Rat(mu, r))

HarmonicEnergy(x, mu, re, k) ==
  LET r == ISqrt(SumSq(<<x[1], x[2], x[3]>>))
      s == Rat(x[3], r)
  IN RSum([n \in 1..(k - 1) |->
             RNeg(PotentialTerm(n - 1, J2_to_6[n], mu, r, re, s))])

\* C4: for an order k in 1..6 the Hamiltonian of a sample is the two-body
\* energy plus exactly the k-1 potential terms of J2..Jk; for k = 1 it is the
\* two-body energy alone.
C4_TermsUpToOrder ==
  (HasReturned("Hamiltonian.__call__") /\ last.pre.order \in 1..6
     /\ Width(last.X) = 6)
    => /\ last.out.ret.tag = "ok"
       /\ Len(last.out.ret.val) = Rows(last.X)
       /\ \A i \in 1..Rows(last.X) :
            /\ last.out.ret.val[i].c = TwoBodyEnergy(last.X[i], last.pre.mu)
            /\ last.out.ret.val[i].j =
                 HarmonicEnergy(last.X[i], last.pre.mu, last.pre.r_earth,
                                last.pre.order)
            /\ last.pre.order = 1 => last.out.ret.val[i].j = R(0)

\* a Hamiltonian of order 4 has returned the energies of two different
\* samples, with a nonzero harmonic part
C4_Witness ==
  /\ HasReturned("Hamiltonian.__call__")
  /\ last.pre.order = 4
  /\ Rows(last.X) = 2
  /\ Width(last.X) = 6
  /\ last.X[1] # last.X[2]
  /\ last.out.ret.tag = "ok"
  /\ last.out.ret.val[1].j # R(0)

\* C5: a ZonalGravity generator of parameter mu uses that mu in the COE to RV
\* conversion, in the acceleration and in the GVE matrix: the rate of sample
\* i is G_COE(X_i; mu) * a_lvlh(rv(X_i; mu); mu, order, r_earth).
C5_ConfiguredMuInEveryStep ==
  HasReturned("ZonalGravity.__call__")
    => last.out.ret =
         Ok([i \in 1..Rows(last.X) |->
               MatVec(CoeGveMatrix(last.X[i], last.pre.mu),
                      LvlhAccelerationRow(rv_coe(last.X, last.pre.mu)[i],
                                          last.pre.mu, last.pre.order,
                                          last.pre.r_earth))])

\* C6: for a 3-element vector and m samples ConstantThrust returns the (m, 6)
\* batch whose row i is G_i * vector, G_i the MEE-with-epoch-longitude GVE
\* matrix of sample i.
C6_RowsAreGTimesVector ==
  \A p \in Procs :
    (calls[p].pc = "done" /\ Len(ct.vector.data) = 3)
      => calls[p].ret =
           Ok([i \in 1..Rows(calls[p].T) |->
                 MatVec(MeeMl0GveMatrix(calls[p].T[i], calls[p].X[i], ct.mu),
                        ct.vector.data)])

\* C7: a call whose time batch and state batch differ in sample count, or
\* whose state batch has not 6 columns, fails (with ShapeMismatch) and
\* returns no batch; the Hamiltonian returns no batch of a sample count
\* other than that of T.
C7_MismatchedShapesFail ==
  HasReturned("Hamiltonian.__call__")
    => /\ (Rows(last.T) # Rows(last.X) \/ Width(last.X) # 6)
            => last.out.ret.tag # "ok"
       /\ last.out.ret.tag = "ok" => Len(last.out.ret.val) = Rows(last.T)

\* C8: a component constructed without a configuration argument has for it
\* the default mu = 1.0, order = 2, r_earth = 1.0.
C8_StatedDefaults ==
  (last.op \in {"Hamiltonian.__init__", "ZonalGravity.__init__",
                "ConstantThrust.__init__"})
    => /\ "mu" \notin DOMAIN last.kw => last.self.mu = 1
       /\ ("order" \notin DOMAIN last.kw /\ "order" \in DOMAIN last.self)
            => last.self.order = 2
       /\ ("r_earth" \notin DOMAIN last.kw /\ "r_earth" \in DOMAIN last.self)
            => last.self.r_earth = 1

\* the (m, 3) array that holds the vector m times
Broadcast(vector, m) == [shape |-> <<m, 3>>, data |-> [i \in 1..m |-> vector.data]]

\* a call of the Hamiltonian or of ZonalGravity leaves every field of the
\* object and the batches T and X as it found them
PureCallsChangeNothing ==
  (last.pc = "returned" /\ last.op \in {"Hamiltonian.__call__", "ZonalGravity.__call__"})
    => /\ last.out.self = last.pre
       /\ last.out.T = last.T
       /\ last.out.X = last.X
       /\ last.op = "Hamiltonian.__call__" => ham = last.pre
       /\ last.op = "ZonalGravity.__call__" => zg = last.pre

C10_ReturnsAsWhenAlone ==
  \A p \in Procs :
    calls[p].pc = "done"
      => calls[p].ret = ConstantThrustCall(last.self, calls[p].T, calls[p].X).ret

\* a call has returned a batch of one sample count while the field u holds
\* the broadcast another call wrote for a different sample count
C10_Witness ==
  \E p \in Procs :
    /\ calls[p].pc = "done"
    /\ calls[p].ret.tag = "ok"
    /\ ct.u.shape[1] # calls[p].m
    /\ \E q \in Procs \ {p} : calls[q].pc \in {"return", "done"}

====
